---- MODULE Spec2Model ----
(***************************************************************************)
(* Model of jc/parsers/unbound_control.py: parse(data, raw) and _process.  *)
(*                                                                         *)
(* Text is a sequence of one-character strings, so that startswith,        *)
(* endswith, split and strip are computed character by character.          *)
(* A value of a record is text, an integer or a float; a record (a Python  *)
(* dict) is a function from keys (text) to values.  Python lists hold      *)
(* references, so the records live in a heap and raw_output is a sequence  *)
(* of heap addresses: the dict `status` that line 161 appends is the very  *)
(* object later `status.update` calls write to.                            *)
(***************************************************************************)
EXTENDS Integers, Sequences, FiniteSets, TLC

----------------------------------------------------------------------------
(* Bounds of the model *)

\* number of lines of an input of the general specification
MaxLines == 3

\* number of status blocks of an input of the status specification
MaxBlocks == 2

\* number of lines of an input of the statistics specification
MaxStats == 3

\* number of lines of an all-blank input
MaxBlank == 3

\* number of uptime lines of an input of the uptime specification
MaxUptime == 2

\* number of lines of an input of the status-line specification
MaxFields == 4

\* number of lines of an input of the overlapping-rules specification
MaxMixed == 3

----------------------------------------------------------------------------
(* Text *)

Whitespace == {" ", "\t"}

Digits == <<"0", "1", "2", "3", "4", "5", "6", "7", "8", "9">>

IsDigit(c) == \E k \in 1..10 : Digits[k] = c

DigitVal(c) == (CHOOSE k \in 1..10 : Digits[k] = c) - 1

\* str.startswith
StartsWith(s, p) == Len(s) >= Len(p) /\ SubSeq(s, 1, Len(p)) = p

\* str.endswith
EndsWith(s, p) == Len(s) >= Len(p) /\ SubSeq(s, Len(s) - Len(p) + 1, Len(s)) = p

\* index of the first occurrence of sub in s, 0 when there is none (str.find + 1)
Find(s, sub) ==
    LET hits == {k \in 1..(Len(s) - Len(sub) + 1) : SubSeq(s, k, k + Len(sub) - 1) = sub}
    IN  IF hits = {} THEN 0 ELSE CHOOSE k \in hits : \A j \in hits : k <= j

\* the `in` operator on str
Contains(s, sub) == Find(s, sub) # 0

\* str.split(sep, maxsplit) with an explicit separator
RECURSIVE Split(_, _, _)
Split(s, sep, maxsplit) ==
    LET k == Find(s, sep)
    IN  IF maxsplit = 0 \/ k = 0
        THEN <<s>>
        ELSE <<SubSeq(s, 1, k - 1)>>
             \o Split(SubSeq(s, k + Len(sep), Len(s)), sep, maxsplit - 1)

RECURSIVE LStrip(_, _)
LStrip(s, chars) ==
    IF s # <<>> /\ Head(s) \in chars THEN LStrip(Tail(s), chars) ELSE s

RECURSIVE RStrip(_, _)
RStrip(s, chars) ==
    IF s # <<>> /\ s[Len(s)] \in chars
    THEN RStrip(SubSeq(s, 1, Len(s) - 1), chars)
    ELSE s

\* str.strip(chars): characters of the set are removed from both ends
Strip(s, chars) == RStrip(LStrip(s, chars), chars)

\* the characters of ' seconds', ')' and 'serial ' (the arguments of strip)
SecondsChars == {" ", "s", "e", "c", "o", "n", "d"}
ParenChars == {")"}
SerialChars == {"s", "e", "r", "i", "a", "l", " "}

----------------------------------------------------------------------------
(* Values: text, int, float.  A float is mant / 10^frac, normalised.       *)

Text(s) == [t |-> "str", s |-> s, n |-> 0, d |-> 0]
IntVal(n) == [t |-> "int", s |-> <<>>, n |-> n, d |-> 0]

RECURSIVE FloatVal(_, _)
FloatVal(mant, frac) ==
    IF frac > 0 /\ mant % 10 = 0
    THEN FloatVal(mant \div 10, frac - 1)
    ELSE [t |-> "float", s |-> <<>>, n |-> mant, d |-> frac]

RECURSIVE DigitsVal(_)
DigitsVal(s) ==
    IF s = <<>> THEN 0
    ELSE 10 * DigitsVal(SubSeq(s, 1, Len(s) - 1)) + DigitVal(s[Len(s)])

AllDigits(s) == s # <<>> /\ \A k \in 1..Len(s) : IsDigit(s[k])

Unsigned(s) == IF s # <<>> /\ Head(s) \in {"-", "+"} THEN Tail(s) ELSE s
Sign(s) == IF s # <<>> /\ Head(s) = "-" THEN -1 ELSE 1

\* int(text): surrounding whitespace, an optional sign, decimal digits;
\* anything else raises ValueError
IsIntText(s) == AllDigits(Unsigned(Strip(s, Whitespace)))
IntOf(s) ==
    LET b == Strip(s, Whitespace) IN Sign(b) * DigitsVal(Unsigned(b))

\* float(text): surrounding whitespace, an optional sign, digits with an
\* optional fractional part (the decimal notation the statistics table uses);
\* anything else raises ValueError
IsFloatText(s) ==
    LET u == Unsigned(Strip(s, Whitespace))
        p == Split(u, <<".">>, 1)
    IN  IF Len(p) = 1 THEN AllDigits(u)
        ELSE /\ \A k \in 1..Len(p[1]) : IsDigit(p[1][k])
             /\ \A k \in 1..Len(p[2]) : IsDigit(p[2][k])
             /\ p[1] \o p[2] # <<>>
FloatOf(s) ==
    LET b == Strip(s, Whitespace)
        p == Split(Unsigned(b), <<".">>, 1)
    IN  IF Len(p) = 1 THEN FloatVal(Sign(b) * DigitsVal(p[1]), 0)
        ELSE FloatVal(Sign(b) * DigitsVal(p[1] \o p[2]), Len(p[2]))

----------------------------------------------------------------------------
(* Records (dicts) *)

EmptyDict == [k \in {} |-> Text(<<>>)]

\* dict.update({key: value})
Update(dict, key, value) ==
    [k \in DOMAIN dict \cup {key} |-> IF k = key THEN value ELSE dict[k]]

----------------------------------------------------------------------------
(* Literals of the parser *)

P_ok == <<"o", "k">>
P_version == <<"v", "e", "r", "s", "i", "o", "n", ":">>
P_verbosity == <<"v", "e", "r", "b", "o", "s", "i", "t", "y", ":">>
P_threads == <<"t", "h", "r", "e", "a", "d", "s", ":">>
P_modules == <<"m", "o", "d", "u", "l", "e", "s", ":">>
P_uptime == <<"u", "p", "t", "i", "m", "e", ":">>
P_options == <<"o", "p", "t", "i", "o", "n", "s", ":">>
P_unbound == <<"u", "n", "b", "o", "u", "n", "d">>
S_static == <<" ", "s", "t", "a", "t", "i", "c">>
S_redirect == <<" ", "r", "e", "d", "i", "r", "e", "c", "t">>
I_serial == <<"s", "e", "r", "i", "a", "l", " ">>

\* the ten prefixes of a statistics line (line 190)
StatsPrefixes ==
    { <<"t", "h", "r", "e", "a", "d">>,
      <<"t", "o", "t", "a", "l", ".">>,
      <<"t", "i", "m", "e", ".">>,
      <<"m", "e", "m", ".">>,
      <<"n", "u", "m", ".">>,
      <<"u", "n", "w", "a", "n", "t", "e", "d", ".">>,
      <<"m", "s", "g", ".">>,
      <<"r", "r", "s", "e", "t", ".">>,
      <<"i", "n", "f", "r", "a", ".">>,
      <<"k", "e", "y", ".">> }

\* the suffixes of a statistics key whose value is a float (line 194)
FloatSuffixes ==
    { <<".", "r", "e", "c", "u", "r", "s", "i", "o", "n", ".", "t", "i", "m", "e", ".", "a", "v", "g">>,
      <<".", "r", "e", "q", "u", "e", "s", "t", "l", "i", "s", "t", ".", "a", "v", "g">>,
      <<".", "r", "e", "c", "u", "r", "s", "i", "o", "n", ".", "t", "i", "m", "e", ".", "m", "e", "d", "i", "a", "n">> }

K_command == <<"c", "o", "m", "m", "a", "n", "d">>
K_version == <<"v", "e", "r", "s", "i", "o", "n">>
K_verbosity == <<"v", "e", "r", "b", "o", "s", "i", "t", "y">>
K_threads == <<"t", "h", "r", "e", "a", "d", "s">>
K_modules == <<"m", "o", "d", "u", "l", "e", "s">>
K_uptime == <<"u", "p", "t", "i", "m", "e">>
K_options == <<"o", "p", "t", "i", "o", "n", "s">>
K_pid == <<"p", "i", "d">>
V_ok == <<"o", "k">>
V_static == <<"s", "t", "a", "t", "i", "c">>
V_redirect == <<"r", "e", "d", "i", "r", "e", "c", "t">>

Colon == <<":">>
ColonSpace == <<":", " ">>
Space == <<" ">>
Tab == <<"\t">>
Equals == <<"=">>

\* Mutant of int_list: version is coerced too.
int_list_version == {K_version, K_verbosity, K_threads, K_uptime, K_pid}

\* _process: the names of the fields coerced to integers (line 77)
int_list == {K_verbosity, K_threads, K_uptime, K_pid}

----------------------------------------------------------------------------
(* Input lines the specifications draw from *)

L_ok == <<"o", "k">>
L_ok_static == <<"o", "k", " ", "s", "t", "a", "t", "i", "c">>
L_version1 == <<"v", "e", "r", "s", "i", "o", "n", ":", " ", "1">>
L_version2 == <<"v", "e", "r", "s", "i", "o", "n", ":", " ", "2">>
L_verbosity == <<"v", "e", "r", "b", "o", "s", "i", "t", "y", ":", " ", "1">>
L_threads == <<"t", "h", "r", "e", "a", "d", "s", ":", " ", "4">>
L_threads_bad == <<"t", "h", "r", "e", "a", "d", "s", ":", "4">>
L_modules == <<"m", "o", "d", "u", "l", "e", "s", ":", " ", "m">>
L_uptime == <<"u", "p", "t", "i", "m", "e", ":", " ", "5", " ", "s">>
L_options == <<"o", "p", "t", "i", "o", "n", "s", ":", " ", "o">>
L_unbound7 == <<" ", "u", "n", "b", "o", "u", "n", "d", " ", "(", "p", "i", "d", " ", "7", ")", " ", "x">>
L_unbound8 == <<"u", "n", "b", "o", "u", "n", "d", " ", "(", "p", "i", "d", " ", "8", ")", " ", "i", "s", " ", "u", "p", " ", "1", "s">>
L_unbound_bad == <<"u", "n", "b", "o", "u", "n", "d">>
L_a_static == <<"a", " ", "s", "t", "a", "t", "i", "c">>
L_a_redirect == <<"a", " ", "r", "e", "d", "i", "r", "e", "c", "t">>
L_b_redirect == <<"b", " ", "r", "e", "d", "i", "r", "e", "c", "t">>
L_pid_static == <<"p", "i", "d", " ", "s", "t", "a", "t", "i", "c">>
L_a_serial == <<"a", "\t", "s", "e", "r", "i", "a", "l", " ", "5">>
L_serial_bad == <<"s", "e", "r", "i", "a", "l", " ", "5">>
L_thread_q == <<"t", "h", "r", "e", "a", "d", "0", ".", "q", "=", "1", "2">>
L_time_now == <<"t", "i", "m", "e", ".", "n", "o", "w", "=", "1", ".", "5">>
L_mem_bad == <<"m", "e", "m", ".", "x">>
L_time_up == <<"t", "i", "m", "e", ".", "u", "p", "=", "3">>
L_reqlist_avg == <<"t", "o", "t", "a", "l", ".", "r", "e", "q", "u", "e", "s", "t", "l", "i", "s", "t", ".", "a", "v", "g", "=", "2", ".", "5">>
L_rec_avg == <<"k", "e", "y", ".", "r", "e", "c", "u", "r", "s", "i", "o", "n", ".", "t", "i", "m", "e", ".", "a", "v", "g", "=", "0", ".", "2", "5">>
L_rec_median == <<"n", "u", "m", ".", "r", "e", "c", "u", "r", "s", "i", "o", "n", ".", "t", "i", "m", "e", ".", "m", "e", "d", "i", "a", "n", "=", "0">>
L_num_bad == <<"n", "u", "m", ".", "x", "=", "1", ".", "5">>
L_threads_stat == <<"t", "h", "r", "e", "a", "d", "s", "=", "3">>
L_zz == <<"z", "z">>
L_blank == <<" ">>
L_empty == <<>>
L_tabs == <<"\t", " ">>
L_uptime_sec == <<"u", "p", "t", "i", "m", "e", ":", " ", "5", " ", "s", "e", "c", "o", "n", "d", "s">>
L_uptime_lead == <<"u", "p", "t", "i", "m", "e", ":", " ", " ", "5", " ", "s">>
L_uptime_mid == <<"u", "p", "t", "i", "m", "e", ":", " ", "5", " ", "d", " ", "6", " ", "s">>
L_total_static == <<"t", "o", "t", "a", "l", ".", "x", "=", "1", " ", "s", "t", "a", "t", "i", "c">>

----------------------------------------------------------------------------
(* State of one call parse(data, raw) *)

VARIABLES
    data,        \* the argument data, as data.splitlines()
    raw,         \* the argument raw
    pos,         \* index of the line the for loop of line 111 is at
    heap,        \* the dicts created so far, by address
    raw_output,  \* the list raw_output: addresses into heap
    status,      \* the local status: an address, 0 while the name is unbound
    itrparse,    \* the local itrparse
    itr,         \* the local itr
    pc,          \* "loop", "final" (line 201), "return" (line 204), "done", "failed"
    fault,       \* the exception that ended the call, "none" otherwise
    result       \* the list handed to the caller

vars == <<data, raw, pos, heap, raw_output, status, itrparse, itr, pc, fault, result>>

\* jc.utils.has_data: the text holds something other than whitespace
HasData(d) ==
    \E k \in 1..Len(d) : \E j \in 1..Len(d[k]) : d[k][j] \notin Whitespace

NonEmpty(l) == l # <<>>

\* filter(None, data.splitlines()), the lines the loop visits
Lines == SelectSeq(data, NonEmpty)

\* line = line.strip()
CurLine == Strip(Lines[pos], Whitespace)

IsStatsLine(line) == \E p \in StatsPrefixes : StartsWith(line, p)

\* Mutant of Classify: the ` static` suffix is tested before the `ok` prefix.
ClassifyStaticFirst(line) ==
    IF EndsWith(line, S_static) THEN 9
    ELSE IF StartsWith(line, P_ok) THEN 1
    ELSE IF StartsWith(line, P_version) THEN 2
    ELSE IF StartsWith(line, P_verbosity) THEN 3
    ELSE IF StartsWith(line, P_threads) THEN 4
    ELSE IF StartsWith(line, P_modules) THEN 5
    ELSE IF StartsWith(line, P_uptime) THEN 6
    ELSE IF StartsWith(line, P_options) THEN 7
    ELSE IF StartsWith(line, P_unbound) THEN 8
    ELSE IF EndsWith(line, S_redirect) THEN 10
    ELSE IF Contains(line, I_serial) THEN 11
    ELSE IF IsStatsLine(line) THEN 12
    ELSE 0

\* Mutant of Classify: the statistics prefixes are tested before the status
\* prefixes.
ClassifyStatsFirst(line) ==
    IF StartsWith(line, P_ok) THEN 1
    ELSE IF IsStatsLine(line) THEN 12
    ELSE IF StartsWith(line, P_version) THEN 2
    ELSE IF StartsWith(line, P_verbosity) THEN 3
    ELSE IF StartsWith(line, P_threads) THEN 4
    ELSE IF StartsWith(line, P_modules) THEN 5
    ELSE IF StartsWith(line, P_uptime) THEN 6
    ELSE IF StartsWith(line, P_options) THEN 7
    ELSE IF StartsWith(line, P_unbound) THEN 8
    ELSE IF EndsWith(line, S_static) THEN 9
    ELSE IF EndsWith(line, S_redirect) THEN 10
    ELSE IF Contains(line, I_serial) THEN 11
    ELSE 0

\* the if/continue chain of lines 114-199: the number of the first rule whose
\* condition the line meets, 0 when it meets none
Classify(line) ==
    IF StartsWith(line, P_ok) THEN 1
    ELSE IF StartsWith(line, P_version) THEN 2
    ELSE IF StartsWith(line, P_verbosity) THEN 3
    ELSE IF StartsWith(line, P_threads) THEN 4
    ELSE IF StartsWith(line, P_modules) THEN 5
    ELSE IF StartsWith(line, P_uptime) THEN 6
    ELSE IF StartsWith(line, P_options) THEN 7
    ELSE IF StartsWith(line, P_unbound) THEN 8
    ELSE IF EndsWith(line, S_static) THEN 9
    ELSE IF EndsWith(line, S_redirect) THEN 10
    ELSE IF Contains(line, I_serial) THEN 11
    ELSE IF IsStatsLine(line) THEN 12
    ELSE 0

AtRule(r) == pc = "loop" /\ pos <= Len(Lines) /\ Classify(CurLine) = r

\* an uncaught exception ends the call: nothing is returned
Raise(f) ==
    /\ pc' = "failed"
    /\ fault' = f
    /\ UNCHANGED <<data, raw, pos, result>>

\* `continue`
Continue ==
    /\ pos' = pos + 1
    /\ UNCHANGED <<data, raw, pc, fault, result>>

\* Mutant of StatusUpdate: a dict is created when no version line has bound one.
StatusUpdateCreates(key, value) ==
    IF status = 0
    THEN /\ heap' = Append(heap, Update(EmptyDict, key, value))
         /\ status' = Len(heap) + 1
         /\ Continue
         /\ UNCHANGED <<raw_output, itrparse, itr>>
    ELSE /\ heap' = [heap EXCEPT ![status] = Update(@, key, value)]
         /\ Continue
         /\ UNCHANGED <<raw_output, status, itrparse, itr>>

\* status.update({key: value}); continue
StatusUpdate(key, value) ==
    IF status = 0
    THEN Raise("NameError") /\ UNCHANGED <<heap, raw_output, status, itrparse, itr>>
    ELSE /\ heap' = [heap EXCEPT ![status] = Update(@, key, value)]
         /\ Continue
         /\ UNCHANGED <<raw_output, status, itrparse, itr>>

\* Mutant of StatusField: a line without `: ` is skipped instead of failing.
StatusFieldLenient(key, line) ==
    LET linedata == Split(line, ColonSpace, 1)
    IN  IF Len(linedata) < 2
        THEN Continue /\ UNCHANGED <<heap, raw_output, status, itrparse, itr>>
        ELSE StatusUpdate(key, Text(linedata[2]))

\* linedata = line.split(': ', maxsplit=1); value = linedata[1];
\* status.update({key: value}); continue
StatusField(key, line) ==
    LET linedata == Split(line, ColonSpace, 1)
    IN  IF Len(linedata) < 2
        THEN Raise("IndexError") /\ UNCHANGED <<heap, raw_output, status, itrparse, itr>>
        ELSE StatusUpdate(key, Text(linedata[2]))

\* Mutant of RuleOk: the acknowledgement also ends the status block in progress.
RuleOkEndsBlock ==
    /\ AtRule(1)
    /\ heap' = Append(heap, Update(EmptyDict, K_command, Text(V_ok)))
    /\ raw_output' = Append(raw_output, Len(heap) + 1)
    /\ status' = 0
    /\ Continue
    /\ UNCHANGED <<itrparse, itr>>

\* lines 115-117
RuleOk ==
    /\ AtRule(1)
    /\ heap' = Append(heap, Update(EmptyDict, K_command, Text(V_ok)))
    /\ raw_output' = Append(raw_output, Len(heap) + 1)
    /\ Continue
    /\ UNCHANGED <<status, itrparse, itr>>

\* Mutant of RuleVersion: the new dict is appended to the output at once.
RuleVersionAppends ==
    /\ AtRule(2)
    /\ LET linedata == Split(CurLine, Colon, 1)
           version == Strip(linedata[2], Whitespace)
       IN  heap' = Append(heap, Update(EmptyDict, K_version, Text(version)))
    /\ status' = Len(heap) + 1
    /\ raw_output' = Append(raw_output, Len(heap) + 1)
    /\ Continue
    /\ UNCHANGED <<itrparse, itr>>

\* Mutant of RuleVersion: the dict of the previous block is written to again
\* instead of a new one being created.
RuleVersionReuse ==
    /\ AtRule(2)
    /\ LET linedata == Split(CurLine, Colon, 1)
           version == Strip(linedata[2], Whitespace)
       IN  IF status = 0
           THEN /\ heap' = Append(heap, Update(EmptyDict, K_version, Text(version)))
                /\ status' = Len(heap) + 1
           ELSE /\ heap' = [heap EXCEPT ![status] = Update(@, K_version, Text(version))]
                /\ status' = status
    /\ Continue
    /\ UNCHANGED <<raw_output, itrparse, itr>>

\* lines 120-125
RuleVersion ==
    /\ AtRule(2)
    /\ LET linedata == Split(CurLine, Colon, 1)
           version == Strip(linedata[2], Whitespace)
       IN  heap' = Append(heap, Update(EmptyDict, K_version, Text(version)))
    /\ status' = Len(heap) + 1
    /\ Continue
    /\ UNCHANGED <<raw_output, itrparse, itr>>

\* lines 127-131
RuleVerbosity ==
    /\ AtRule(3)
    /\ LET linedata == Split(CurLine, Colon, 1)
       IN  StatusUpdate(K_verbosity, Text(linedata[2]))

\* lines 133-137
RuleThreads == AtRule(4) /\ StatusField(K_threads, CurLine)

\* lines 139-143
RuleModules == AtRule(5) /\ StatusField(K_modules, CurLine)

\* lines 145-149
RuleUptime ==
    /\ AtRule(6)
    /\ LET linedata == Split(CurLine, ColonSpace, 1)
       IN  IF Len(linedata) < 2
           THEN Raise("IndexError")
                /\ UNCHANGED <<heap, raw_output, status, itrparse, itr>>
           ELSE StatusUpdate(K_uptime, Text(Strip(linedata[2], SecondsChars)))

\* lines 151-155
RuleOptions == AtRule(7) /\ StatusField(K_options, CurLine)

\* Mutant of RuleUnbound: the pid is read from the 2nd token.
RuleUnboundSecondToken ==
    /\ AtRule(8)
    /\ LET linedata == Split(CurLine, Space, 4)
       IN  IF Len(linedata) < 3
           THEN Raise("IndexError")
                /\ UNCHANGED <<heap, raw_output, status, itrparse, itr>>
           ELSE IF status = 0
           THEN Raise("NameError")
                /\ UNCHANGED <<heap, raw_output, status, itrparse, itr>>
           ELSE /\ heap' = [heap EXCEPT ![status] =
                               Update(@, K_pid, Text(Strip(linedata[2], ParenChars)))]
                /\ raw_output' = Append(raw_output, status)
                /\ Continue
                /\ UNCHANGED <<status, itrparse, itr>>

\* lines 157-162
RuleUnbound ==
    /\ AtRule(8)
    /\ LET linedata == Split(CurLine, Space, 4)
       IN  IF Len(linedata) < 3
           THEN Raise("IndexError")
                /\ UNCHANGED <<heap, raw_output, status, itrparse, itr>>
           ELSE IF status = 0
           THEN Raise("NameError")
                /\ UNCHANGED <<heap, raw_output, status, itrparse, itr>>
           ELSE /\ heap' = [heap EXCEPT ![status] =
                               Update(@, K_pid, Text(Strip(linedata[3], ParenChars)))]
                /\ raw_output' = Append(raw_output, status)
                /\ Continue
                /\ UNCHANGED <<status, itrparse, itr>>

\* lines 167-171 and 174-178: the zone is the text before the first space
ZoneLine(line, type) ==
    LET linedata == Split(line, Space, 1)
        zone == linedata[1]
    IN  /\ itrparse' = TRUE
        /\ itr' = Update(itr, zone, Text(type))
        /\ Continue
        /\ UNCHANGED <<heap, raw_output, status>>

\* lines 166-171
RuleStatic == AtRule(9) /\ ZoneLine(CurLine, V_static)

\* lines 173-178
RuleRedirect == AtRule(10) /\ ZoneLine(CurLine, V_redirect)

\* lines 180-186
RuleSerial ==
    /\ AtRule(11)
    /\ itrparse' = TRUE
    /\ LET linedata == Split(CurLine, Tab, 2)
           zone == linedata[1]
       IN  IF Len(linedata) < 2
           THEN Raise("IndexError") /\ UNCHANGED <<heap, raw_output, status, itr>>
           ELSE IF ~IsIntText(Strip(linedata[2], SerialChars))
           THEN Raise("ValueError") /\ UNCHANGED <<heap, raw_output, status, itr>>
           ELSE /\ itr' = Update(itr, zone, IntVal(IntOf(Strip(linedata[2], SerialChars))))
                /\ Continue
                /\ UNCHANGED <<heap, raw_output, status>>

\* Mutant of IsFloatKey: the suffixes are not tested.
IsFloatKeyPrefixOnly(key) == StartsWith(key, <<"t", "i", "m", "e", ".">>)

\* line 194: the keys whose value is parsed as a float
IsFloatKey(key) ==
    \/ StartsWith(key, <<"t", "i", "m", "e", ".">>)
    \/ \E sfx \in FloatSuffixes : EndsWith(key, sfx)

\* lines 190-199
RuleStats ==
    /\ AtRule(12)
    /\ itrparse' = TRUE
    /\ LET linedata == Split(CurLine, Equals, 1)
           key == linedata[1]
       IN  IF Len(linedata) < 2
           THEN Raise("IndexError") /\ UNCHANGED <<heap, raw_output, status, itr>>
           ELSE IF IsFloatKey(key)
           THEN IF IsFloatText(linedata[2])
                THEN /\ itr' = Update(itr, key, FloatOf(linedata[2]))
                     /\ Continue
                     /\ UNCHANGED <<heap, raw_output, status>>
                ELSE Raise("ValueError") /\ UNCHANGED <<heap, raw_output, status, itr>>
           ELSE IF IsIntText(linedata[2])
                THEN /\ itr' = Update(itr, key, IntVal(IntOf(linedata[2])))
                     /\ Continue
                     /\ UNCHANGED <<heap, raw_output, status>>
                ELSE Raise("ValueError") /\ UNCHANGED <<heap, raw_output, status, itr>>

\* Mutant of NoMatch: an unmatched line drops the aggregate gathered so far.
NoMatchClears ==
    /\ AtRule(0)
    /\ itr' = EmptyDict
    /\ Continue
    /\ UNCHANGED <<heap, raw_output, status, itrparse>>

\* no condition of the chain holds: the loop goes to the next line
NoMatch ==
    /\ AtRule(0)
    /\ Continue
    /\ UNCHANGED <<heap, raw_output, status, itrparse, itr>>

\* the loop is exhausted
EndLoop ==
    /\ pc = "loop"
    /\ pos > Len(Lines)
    /\ pc' = "final"
    /\ UNCHANGED <<data, raw, pos, heap, raw_output, status, itrparse, itr, fault, result>>

\* Mutant of Finalize: the aggregate record is put in front of the list.
FinalizeFirst ==
    /\ pc = "final"
    /\ IF itrparse
       THEN /\ heap' = Append(heap, itr)
            /\ raw_output' = <<Len(heap) + 1>> \o raw_output
       ELSE UNCHANGED <<heap, raw_output>>
    /\ pc' = "return"
    /\ UNCHANGED <<data, raw, pos, status, itrparse, itr, fault, result>>

\* Mutant of Finalize: the aggregate mapping is appended whatever the flag says.
FinalizeUnguarded ==
    /\ pc = "final"
    /\ heap' = Append(heap, itr)
    /\ raw_output' = Append(raw_output, Len(heap) + 1)
    /\ pc' = "return"
    /\ UNCHANGED <<data, raw, pos, status, itrparse, itr, fault, result>>

\* lines 201-202
Finalize ==
    /\ pc = "final"
    /\ IF itrparse
       THEN /\ heap' = Append(heap, itr)
            /\ raw_output' = Append(raw_output, Len(heap) + 1)
       ELSE UNCHANGED <<heap, raw_output>>
    /\ pc' = "return"
    /\ UNCHANGED <<data, raw, pos, status, itrparse, itr, fault, result>>

\* jc.utils.convert_to_int: an integer stays, text that is an integer is
\* converted, other text is a conversion fault
CanConvert(v) == v.t = "int" \/ (v.t = "str" /\ IsIntText(v.s))
ConvertToInt(v) == IF v.t = "int" THEN v ELSE IntVal(IntOf(v.s))

\* lines 80-82, for one entry
ProcessEntry(entry) ==
    [key \in DOMAIN entry |->
        IF key \in int_list THEN ConvertToInt(entry[key]) ELSE entry[key]]

\* lines 79-82: the entries are converted in place, in list order
RECURSIVE ProcessHeap(_, _)
ProcessHeap(h, ids) ==
    IF ids = <<>> THEN h
    ELSE ProcessHeap([h EXCEPT ![Head(ids)] = ProcessEntry(@)], Tail(ids))

ProcessFails(h, ids) ==
    \E j \in 1..Len(ids) :
        \E key \in DOMAIN h[ids[j]] \cap int_list : ~CanConvert(h[ids[j]][key])

\* the list of dicts a list of addresses stands for
View(h, ids) == [j \in 1..Len(ids) |-> h[ids[j]]]

\* Mutant of Return: the aggregate dict is appended here, without the test
\* of itrparse.
ReturnAppendsAggregate ==
    /\ pc = "return"
    /\ IF raw
       THEN /\ result' = Append(View(heap, raw_output), itr)
            /\ pc' = "done"
            /\ UNCHANGED <<heap, fault>>
       ELSE IF ProcessFails(heap, raw_output)
       THEN /\ pc' = "failed"
            /\ fault' = "ConversionError"
            /\ UNCHANGED <<heap, result>>
       ELSE /\ heap' = ProcessHeap(heap, raw_output)
            /\ result' = Append(View(heap', raw_output), ProcessEntry(itr))
            /\ pc' = "done"
            /\ UNCHANGED fault
    /\ UNCHANGED <<data, raw, pos, raw_output, status, itrparse, itr>>

\* Mutant of Return: the coercion runs whatever raw is.
ReturnAlwaysProcessed ==
    /\ pc = "return"
    /\ IF ProcessFails(heap, raw_output)
       THEN /\ pc' = "failed"
            /\ fault' = "ConversionError"
            /\ UNCHANGED <<heap, result>>
       ELSE /\ heap' = ProcessHeap(heap, raw_output)
            /\ result' = View(heap', raw_output)
            /\ pc' = "done"
            /\ UNCHANGED fault
    /\ UNCHANGED <<data, raw, pos, raw_output, status, itrparse, itr>>

\* line 204
Return ==
    /\ pc = "return"
    /\ IF raw
       THEN /\ result' = View(heap, raw_output)
            /\ pc' = "done"
            /\ UNCHANGED <<heap, fault>>
       ELSE IF ProcessFails(heap, raw_output)
       THEN /\ pc' = "failed"
            /\ fault' = "ConversionError"
            /\ UNCHANGED <<heap, result>>
       ELSE /\ heap' = ProcessHeap(heap, raw_output)
            /\ result' = View(heap', raw_output)
            /\ pc' = "done"
            /\ UNCHANGED fault
    /\ UNCHANGED <<data, raw, pos, raw_output, status, itrparse, itr>>

\* lines 104-109: the state when the loop is entered, or line 204 is reached
\* at once when there is no data
InitOn(inputs) ==
    /\ data \in inputs
    /\ raw \in BOOLEAN
    /\ pos = 1
    /\ heap = <<>>
    /\ raw_output = <<>>
    /\ status = 0
    /\ itrparse = FALSE
    /\ itr = EmptyDict
    /\ pc = IF HasData(data) THEN "loop" ELSE "return"
    /\ fault = "none"
    /\ result = <<>>

SeqsUpTo(S, n) == UNION {[1..k -> S] : k \in 0..n}

\* the general specification: every kind of line, well formed or not
Pool ==
    { L_ok, L_ok_static, L_version1, L_verbosity, L_threads, L_threads_bad,
      L_modules, L_uptime, L_options, L_unbound7, L_unbound_bad, L_a_static,
      L_b_redirect, L_pid_static, L_a_serial, L_thread_q, L_time_now, L_mem_bad,
      L_zz }

Init == InitOn(SeqsUpTo(Pool, MaxLines))

Next ==
    \/ RuleOk
    \/ RuleVersion
    \/ RuleVerbosity
    \/ RuleThreads
    \/ RuleModules
    \/ RuleUptime
    \/ RuleOptions
    \/ RuleUnbound
    \/ RuleStatic
    \/ RuleRedirect
    \/ RuleSerial
    \/ RuleStats
    \/ NoMatch
    \/ EndLoop
    \/ Finalize
    \/ Return

Spec == Init /\ [][Next]_vars

----------------------------------------------------------------------------
(* Inputs made of well-formed status blocks only *)

VersionLines == {L_version1, L_version2}
TerminatorLines == {L_unbound7, L_unbound8}
FieldLines ==
    { <<>>, <<L_verbosity>>, <<L_threads>>, <<L_modules>>, <<L_uptime>>, <<L_options>>,
      <<L_verbosity, L_threads, L_modules, L_uptime, L_options>> }

\* a block: a version line, field lines, the terminator line
Blocks ==
    { <<v>> \o f \o <<u>> : v \in VersionLines, f \in FieldLines, u \in TerminatorLines }

RECURSIVE BlockInputs(_)
BlockInputs(n) ==
    IF n = 0 THEN {<<>>}
    ELSE LET shorter == BlockInputs(n - 1)
         IN  shorter \cup {d \o b : d \in shorter, b \in Blocks}

InitStatus == InitOn(BlockInputs(MaxBlocks))

NextStatus ==
    \/ RuleVersion
    \/ RuleVerbosity
    \/ RuleThreads
    \/ RuleModules
    \/ RuleUptime
    \/ RuleOptions
    \/ RuleUnbound
    \/ EndLoop
    \/ Finalize
    \/ Return

SpecStatus == InitStatus /\ [][NextStatus]_vars

----------------------------------------------------------------------------
(* Inputs made of statistics lines only *)

StatsPool ==
    { L_thread_q, L_threads_stat, L_time_now, L_time_up, L_reqlist_avg, L_rec_avg,
      L_rec_median, L_num_bad, L_mem_bad }

InitStats == InitOn(SeqsUpTo(StatsPool, MaxStats))

NextStats ==
    \/ RuleStats
    \/ EndLoop
    \/ Finalize
    \/ Return

SpecStats == InitStats /\ [][NextStats]_vars

----------------------------------------------------------------------------
(* Inputs that are empty or made of blank lines only *)

BlankPool == {L_empty, L_blank, L_tabs}

InitBlank == InitOn(SeqsUpTo(BlankPool, MaxBlank))

NextBlank == Return

SpecBlank == InitBlank /\ [][NextBlank]_vars

----------------------------------------------------------------------------
(* Inputs of a version line followed by uptime lines *)

UptimePool == {L_uptime, L_uptime_sec, L_uptime_lead, L_uptime_mid}

UptimeInputs == {<<L_version1>> \o u : u \in SeqsUpTo(UptimePool, MaxUptime)}

InitUptime == InitOn(UptimeInputs)

NextUptime ==
    \/ RuleVersion
    \/ RuleUptime
    \/ EndLoop
    \/ Finalize
    \/ Return

SpecUptime == InitUptime /\ [][NextUptime]_vars

----------------------------------------------------------------------------
(* Inputs of status lines in any order, well-formed blocks or not *)

FieldsPool == {L_version1, L_version2, L_threads, L_uptime, L_unbound7, L_unbound8}

InitFields == InitOn(SeqsUpTo(FieldsPool, MaxFields))

NextFields ==
    \/ RuleVersion
    \/ RuleThreads
    \/ RuleUptime
    \/ RuleUnbound
    \/ EndLoop
    \/ Finalize
    \/ Return

SpecFields == InitFields /\ [][NextFields]_vars

----------------------------------------------------------------------------
(* Inputs with lines that meet the condition of more than one rule *)

MixedPool ==
    { L_ok, L_ok_static, L_version1, L_threads, L_unbound7, L_a_static,
      L_thread_q, L_total_static }

InitMixed == InitOn(SeqsUpTo(MixedPool, MaxMixed))

NextMixed ==
    \/ RuleOk
    \/ RuleVersion
    \/ RuleThreads
    \/ RuleUnbound
    \/ RuleStatic
    \/ RuleStats
    \/ EndLoop
    \/ Finalize
    \/ Return

SpecMixed == InitMixed /\ [][NextMixed]_vars

----------------------------------------------------------------------------
(* Vocabulary of the properties *)

AckRecord == [key \in {K_command} |-> Text(V_ok)]

\* The kinds of record, told apart by content.  No input line of the
\* specifications names a zone `version` or `command`.
KindOf(rec) ==
    IF rec = AckRecord THEN "ack"
    ELSE IF K_version \in DOMAIN rec THEN "status"
    ELSE "aggregate"

Kinds(recs) == [j \in 1..Len(recs) |-> KindOf(recs[j])]

Stripped(j) == Strip(Lines[j], Whitespace)

IsOkLine(l) == StartsWith(Strip(l, Whitespace), P_ok)
IsVersionLine(l) == ~IsOkLine(l) /\ StartsWith(Strip(l, Whitespace), P_version)
IsTerminatorLine(l) == ~IsOkLine(l) /\ StartsWith(Strip(l, Whitespace), P_unbound)

CountAcks(recs) == Cardinality({j \in 1..Len(recs) : recs[j] = AckRecord})
CountStatus(recs) == Cardinality({j \in 1..Len(recs) : KindOf(recs[j]) = "status"})
CountOkLines(lines) == Cardinality({j \in 1..Len(lines) : IsOkLine(lines[j])})

----------------------------------------------------------------------------
(* C1 *)

\* the kinds of record the lines call for, in line order: an `ok` line an
\* acknowledgement, an `unbound` line a status record
RECURSIVE ExpectedKinds(_)
ExpectedKinds(lines) ==
    IF lines = <<>> THEN <<>>
    ELSE (IF IsOkLine(Head(lines)) THEN <<"ack">>
          ELSE IF IsTerminatorLine(Head(lines)) THEN <<"status">>
          ELSE <<>>) \o ExpectedKinds(Tail(lines))

\* C1: in every returned output there is at most one Aggregate Record and it
\* is the last element; the records before it are the Status and
\* Acknowledgement Records in the order of their `unbound` and `ok` lines,
\* wherever the zone and statistics lines stood.
C1_AggregateLast ==
    pc = "done" =>
        LET kinds == Kinds(result)
            n == Len(kinds)
            body == IF n > 0 /\ kinds[n] = "aggregate" THEN SubSeq(kinds, 1, n - 1) ELSE kinds
        IN  body = ExpectedKinds(Lines)

\* an output whose aggregate record comes from a line before the line of another record
C1_Witness ==
    /\ pc = "done"
    /\ Len(result) >= 2
    /\ KindOf(result[Len(result)]) = "aggregate"
    /\ Classify(Stripped(1)) \in 9..12

----------------------------------------------------------------------------
(* C2 and C9, on inputs of well-formed status blocks *)

VersionOf(l) == IF l = L_version1 THEN <<"1">> ELSE <<"2">>
PidOf(l) == IF l = L_unbound7 THEN <<"7">> ELSE <<"8">>

\* C2: N well-formed status blocks give exactly N Status Records, in input
\* order, the i-th with the version and the pid of the i-th block; the call
\* does not fail.
C2_RecordPerBlock ==
    /\ pc # "failed"
    /\ pc = "done" =>
        LET vs == SelectSeq(Lines, IsVersionLine)
            us == SelectSeq(Lines, IsTerminatorLine)
        IN  /\ Len(result) = Len(vs)
            /\ Len(us) = Len(vs)
            /\ \A j \in 1..Len(result) :
                /\ KindOf(result[j]) = "status"
                /\ result[j][K_version] = Text(VersionOf(vs[j]))
                /\ result[j][K_pid] =
                      IF raw THEN Text(PidOf(us[j])) ELSE IntVal(DigitsVal(PidOf(us[j])))

\* two blocks that differ in version and pid have been parsed
C2_Witness ==
    /\ pc = "done"
    /\ Len(result) = 2
    /\ result[1][K_version] # result[2][K_version]
    /\ result[1][K_pid] # result[2][K_pid]

\* C9: the terminator line is split on spaces into at most 5 tokens, the pid
\* of the Status Record is the 3rd token without its trailing `)`, an integer
\* in processed mode, and each terminator line gives exactly one Status Record.
C9_PidThirdToken ==
    pc = "done" =>
        LET us == SelectSeq(Lines, IsTerminatorLine)
        IN  /\ CountStatus(result) = Len(us)
            /\ \A j \in 1..Len(us) :
                LET tokens == Split(Strip(us[j], Whitespace), Space, 4)
                    pid == RStrip(tokens[3], {")"})
                IN  /\ Len(tokens) <= 5
                    /\ Len(tokens) >= 3
                    /\ j <= Len(result)
                    /\ K_pid \in DOMAIN result[j]
                    /\ result[j][K_pid] =
                          IF raw THEN Text(pid) ELSE IntVal(DigitsVal(pid))

\* a terminator line of more than 5 words has given a record with an integer pid
C9_Witness ==
    /\ pc = "done"
    /\ ~raw
    /\ \E j \in 1..Len(result) : result[j][K_pid] = IntVal(8)
    /\ \E j \in 1..Len(Lines) : Lines[j] = L_unbound8

----------------------------------------------------------------------------
(* C3 *)

\* C3: every line that starts with `ok` adds exactly one Acknowledgement
\* Record: after each prefix of the lines, and in the returned output, there
\* are as many Acknowledgement Records as `ok` lines consumed.
C3_AckPerOkLine ==
    /\ pc = "loop" =>
          CountAcks(View(heap, raw_output)) = CountOkLines(SubSeq(Lines, 1, pos - 1))
    /\ pc = "done" => CountAcks(result) = CountOkLines(Lines)

\* `ok` with trailing content, after another line, has been counted
C3_Witness ==
    /\ pc = "done"
    /\ CountAcks(result) >= 2
    /\ \E j \in 2..Len(Lines) : Lines[j] = L_ok_static

----------------------------------------------------------------------------
(* C4 *)

\* none of the twelve conditions of the classification holds of the line
MatchesNone(line) ==
    /\ \A p \in {P_ok, P_version, P_verbosity, P_threads, P_modules, P_uptime,
                 P_options, P_unbound} : ~StartsWith(line, p)
    /\ ~EndsWith(line, S_static)
    /\ ~EndsWith(line, S_redirect)
    /\ ~Contains(line, I_serial)
    /\ \A p \in StatsPrefixes : ~StartsWith(line, p)

\* C4: a line that matches none of the twelve rules leaves the output, the
\* status fields in progress, the aggregate mapping and the aggregate-mode
\* flag as they were, and does not end the call in a failure.
C4_UnmatchedLineNoEffect ==
    [][(pc = "loop" /\ pos <= Len(Lines) /\ MatchesNone(CurLine))
         => (/\ UNCHANGED <<raw_output, heap, status, itrparse, itr>>
             /\ pc' = "loop"
             /\ fault' = "none")]_vars

\* an unmatched line has been passed with a status block and an aggregate in progress
C4_Witness ==
    /\ pc = "loop"
    /\ pos > 1
    /\ MatchesNone(Stripped(pos - 1))
    /\ status # 0
    /\ itrparse

----------------------------------------------------------------------------
(* C5 *)

AllText(rec) == \A key \in DOMAIN rec : rec[key].t = "str"

\* C5 as stated: in raw mode every value of every record of the output,
\* the Aggregate Record included, is text.
C5_RawAllText ==
    (pc = "done" /\ raw) => \A j \in 1..Len(result) : AllText(result[j])

\* C5, amended: in raw mode every value of every Status and Acknowledgement
\* Record is text; in the Aggregate Record the zone types are the texts
\* `static` and `redirect`, and every other value (a serial, a statistic) is
\* the integer or float it was parsed to.
C5_RawTextButAggregate ==
    (pc = "done" /\ raw) =>
        \A j \in 1..Len(result) :
            IF KindOf(result[j]) = "aggregate"
            THEN \A key \in DOMAIN result[j] :
                    \/ result[j][key] \in {Text(V_static), Text(V_redirect)}
                    \/ result[j][key].t \in {"int", "float"}
            ELSE AllText(result[j])

\* a raw output with a status record of several fields and a typed aggregate value
C5_Witness ==
    /\ pc = "done"
    /\ raw
    /\ \E j \in 1..Len(result) :
          KindOf(result[j]) = "status" /\ Cardinality(DOMAIN result[j]) >= 2
    /\ \E j \in 1..Len(result) :
          KindOf(result[j]) = "aggregate"
              /\ \E key \in DOMAIN result[j] : result[j][key].t \in {"int", "float"}

----------------------------------------------------------------------------
(* C6 *)

NumericFields == {K_verbosity, K_threads, K_uptime, K_pid}

\* C6: the processed output has the records of the raw output, in the same
\* number and order and with the same keys; the text values under verbosity,
\* threads, uptime and pid have become the integers they spell, and every
\* other value is the value of the raw output.
C6_ProcessedDiffersInFourFields ==
    [][(pc = "return" /\ pc' = "done" /\ ~raw)
         => LET before == View(heap, raw_output)
            IN  /\ Len(result') = Len(before)
                /\ \A j \in 1..Len(before) :
                    /\ DOMAIN result'[j] = DOMAIN before[j]
                    /\ \A key \in DOMAIN before[j] :
                          IF key \in NumericFields /\ before[j][key].t = "str"
                          THEN /\ result'[j][key].t = "int"
                               /\ result'[j][key].n = IntOf(before[j][key].s)
                          ELSE result'[j][key] = before[j][key]]_vars

\* a processed output with a converted pid, an untouched version and an aggregate record
C6_Witness ==
    /\ pc = "done"
    /\ ~raw
    /\ \E j \in 1..Len(result) :
          /\ KindOf(result[j]) = "status"
          /\ K_pid \in DOMAIN result[j]
          /\ result[j][K_pid].t = "int"
          /\ result[j][K_version].t = "str"
    /\ \E j \in 1..Len(result) : KindOf(result[j]) = "aggregate"

----------------------------------------------------------------------------
(* C7 *)

IsZoneLine(l) ==
    LET line == Strip(l, Whitespace)
    IN  /\ \A p \in {P_ok, P_version, P_verbosity, P_threads, P_modules, P_uptime,
                     P_options, P_unbound} : ~StartsWith(line, p)
        /\ EndsWith(line, S_static) \/ EndsWith(line, S_redirect)

ZoneOf(l) == LET line == Strip(l, Whitespace) IN SubSeq(line, 1, Find(line, Space) - 1)
TypeOf(l) == IF EndsWith(Strip(l, Whitespace), S_static) THEN V_static ELSE V_redirect

ZoneLinesOnly == Lines # <<>> /\ \A j \in 1..Len(Lines) : IsZoneLine(Lines[j])

\* C7: an input of `<zone> static` and `<zone> redirect` lines only gives
\* exactly one record, the Aggregate Record, which maps each zone name that
\* occurs to its type string (that of its last line).
C7_ZonesOnlyOneAggregate ==
    (ZoneLinesOnly /\ pc \in {"done", "failed"}) =>
        /\ pc = "done"
        /\ Len(result) = 1
        /\ DOMAIN result[1] = {ZoneOf(Lines[j]) : j \in 1..Len(Lines)}
        /\ \A j \in 1..Len(Lines) :
              (\A i \in (j + 1)..Len(Lines) : ZoneOf(Lines[i]) # ZoneOf(Lines[j]))
                  => result[1][ZoneOf(Lines[j])] = Text(TypeOf(Lines[j]))

----------------------------------------------------------------------------
(* C8, on inputs of statistics lines *)

KeyOf(l) == LET line == Strip(l, Whitespace) IN SubSeq(line, 1, Find(line, Equals) - 1)

FloatKeyAsStated(key) ==
    \/ StartsWith(key, <<"t", "i", "m", "e", ".">>)
    \/ EndsWith(key, <<".", "r", "e", "c", "u", "r", "s", "i", "o", "n", ".", "t", "i", "m", "e", ".", "a", "v", "g">>)
    \/ EndsWith(key, <<".", "r", "e", "q", "u", "e", "s", "t", "l", "i", "s", "t", ".", "a", "v", "g">>)
    \/ EndsWith(key, <<".", "r", "e", "c", "u", "r", "s", "i", "o", "n", ".", "t", "i", "m", "e", ".", "m", "e", "d", "i", "a", "n">>)

\* C8: the value the Aggregate Record holds under the key of a statistics
\* line is a float when the key starts with `time.` or ends with
\* `.recursion.time.avg`, `.requestlist.avg` or `.recursion.time.median`, and
\* an integer otherwise; `thread0.q=12` gives the integer 12 and
\* `time.now=1.5` the float 1.5.
C8_StatisticsTyping ==
    (pc = "done" /\ Lines # <<>>) =>
        /\ Len(result) = 1
        /\ \A j \in 1..Len(Lines) :
              /\ KeyOf(Lines[j]) \in DOMAIN result[1]
              /\ result[1][KeyOf(Lines[j])].t =
                    IF FloatKeyAsStated(KeyOf(Lines[j])) THEN "float" ELSE "int"
              /\ Lines[j] = L_thread_q => result[1][KeyOf(L_thread_q)] = IntVal(12)
              /\ Lines[j] = L_time_now =>
                    result[1][KeyOf(L_time_now)] = [t |-> "float", s |-> <<>>, n |-> 15, d |-> 1]

\* an aggregate record with a float under a `time.` key, a float under a
\* suffix key and an integer
C8_Witness ==
    /\ pc = "done"
    /\ Len(result) = 1
    /\ \E j \in 1..Len(Lines) : Lines[j] = L_time_up
    /\ \E j \in 1..Len(Lines) : Lines[j] \in {L_reqlist_avg, L_rec_avg, L_rec_median}
    /\ \E key \in DOMAIN result[1] : result[1][key].t = "int"

----------------------------------------------------------------------------
(* C10 *)

CountSpaces(line) == Cardinality({k \in 1..Len(line) : line[k] = " "})

\* the line meets a prefix rule (and no earlier rule) and lacks the delimiter
\* or the fields the rule reads
Malformed(l) ==
    LET line == Strip(l, Whitespace)
    IN  /\ ~StartsWith(line, P_ok)
        /\ \/ /\ \E p \in {P_threads, P_modules, P_uptime, P_options} : StartsWith(line, p)
              /\ ~Contains(line, ColonSpace)
           \/ /\ StartsWith(line, P_unbound)
              /\ CountSpaces(line) < 2
           \/ /\ \A p \in {P_version, P_verbosity, P_threads, P_modules, P_uptime,
                           P_options, P_unbound} : ~StartsWith(line, p)
              /\ ~EndsWith(line, S_static)
              /\ ~EndsWith(line, S_redirect)
              /\ ~Contains(line, I_serial)
              /\ \E p \in StatsPrefixes : StartsWith(line, p)
              /\ ~Contains(line, Equals)

\* C10: when a line of the input matches a prefix rule but lacks its
\* delimiter or field count, the call never returns: it ends in a failure and
\* hands no record to the caller, whatever was appended for earlier lines.
C10_MalformedLineFails ==
    /\ (\E j \in 1..Len(Lines) : Malformed(Lines[j])) => (pc # "done" /\ result = <<>>)
    /\ pc = "loop" => \A j \in 1..(pos - 1) : ~Malformed(Lines[j])
    /\ pc = "failed" => result = <<>>

\* the call has failed at a malformed line after records were appended
C10_Witness ==
    /\ pc = "failed"
    /\ fault = "IndexError"
    /\ Malformed(Lines[pos])
    /\ raw_output # <<>>

----------------------------------------------------------------------------
(* C11, on inputs of blank lines *)

IsBlank(l) == Strip(l, Whitespace) = <<>>

\* C11: for an input that is empty or consists only of empty or
\* whitespace-only lines, the call does not fail and returns the empty list.
C11_BlankInputEmptyOutput ==
    (\A k \in 1..Len(data) : IsBlank(data[k])) =>
        /\ pc # "failed"
        /\ pc = "done" => result = <<>>

\* a call on several blank lines, one of them whitespace, has returned
C11_Witness ==
    /\ pc = "done"
    /\ Len(data) >= 2
    /\ \E k \in 1..Len(data) : data[k] = L_tabs
    /\ \E k \in 1..Len(data) : data[k] = L_empty
    /\ result = <<>>

----------------------------------------------------------------------------
(* C12, on inputs with lines that meet several rules *)

\* the condition of rule k, as the rules are listed
RuleHolds(k, line) ==
    CASE k = 1 -> StartsWith(line, P_ok)
      [] k = 2 -> StartsWith(line, P_version)
      [] k = 3 -> StartsWith(line, P_verbosity)
      [] k = 4 -> StartsWith(line, P_threads)
      [] k = 5 -> StartsWith(line, P_modules)
      [] k = 6 -> StartsWith(line, P_uptime)
      [] k = 7 -> StartsWith(line, P_options)
      [] k = 8 -> StartsWith(line, P_unbound)
      [] k = 9 -> EndsWith(line, S_static)
      [] k = 10 -> EndsWith(line, S_redirect)
      [] k = 11 -> Contains(line, I_serial)
      [] OTHER -> \E p \in StatsPrefixes : StartsWith(line, p)

FirstRule(line) ==
    LET hits == {k \in 1..12 : RuleHolds(k, line)}
    IN  IF hits = {} THEN 0 ELSE CHOOSE k \in hits : \A j \in hits : k <= j

MeetsSeveralRules(line) == Cardinality({k \in 1..12 : RuleHolds(k, line)}) >= 2

\* C12: a line has the effect of the first rule it meets and of no later
\* one: an `ok` line only appends an Acknowledgement Record, a status line
\* (rules 2 to 8) leaves the aggregate alone and appends no acknowledgement,
\* and a zone or statistics line (rules 9 to 12) leaves the output and the
\* status fields alone; a ` static` line that also has a statistics prefix
\* adds its zone and no statistics key, and `threads: 4` sets the field
\* threads.
C12_FirstMatchWins ==
    [][(pc = "loop" /\ pos <= Len(Lines))
         => LET r == FirstRule(CurLine)
            IN  /\ r = 1 =>
                    /\ heap' = Append(heap, AckRecord)
                    /\ raw_output' = Append(raw_output, Len(heap) + 1)
                    /\ UNCHANGED <<status, itrparse, itr>>
                /\ r \in 2..8 =>
                    /\ UNCHANGED <<itrparse, itr>>
                    /\ CountAcks(View(heap', raw_output')) = CountAcks(View(heap, raw_output))
                /\ r \in 2..7 => raw_output' = raw_output
                /\ (r = 4 /\ Lines[pos] = L_threads /\ status # 0) =>
                    heap'[status] = Update(heap[status], K_threads, Text(<<"4">>))
                /\ r \in 9..12 => UNCHANGED <<heap, raw_output, status>>
                /\ r = 9 =>
                    /\ DOMAIN itr' = DOMAIN itr \cup {ZoneOf(Lines[pos])}
                    /\ itr'[ZoneOf(Lines[pos])] = Text(V_static)]_vars

\* an `ok ... static` line and a `threads: 4` line have been handled by the
\* ok rule and the threads rule
C12_Witness ==
    /\ pc = "loop"
    /\ pos = 4
    /\ Lines[2] = L_threads
    /\ Lines[3] = L_ok_static
    /\ MeetsSeveralRules(Stripped(2))
    /\ MeetsSeveralRules(Stripped(3))
    /\ K_threads \in DOMAIN heap[status]
    /\ heap[raw_output[Len(raw_output)]] = AckRecord
    /\ ~itrparse

----------------------------------------------------------------------------
(* C13, on inputs of uptime lines *)

AfterColonSpace(line) == SubSeq(line, Find(line, ColonSpace) + 2, Len(line))

UptimeSet == {"s", "e", "c", "o", "n", "d", " "}

\* C13: after an `uptime:` line the stored uptime is the text after the first
\* `: ` with the characters s, e, c, o, n, d and space removed from the tail
\* only: the longest prefix of that text whose last character is not in the
\* set, nothing being removed from its start.
C13_UptimeTailOnly ==
    (pc = "loop" /\ pos > 1 /\ status # 0 /\ StartsWith(Stripped(pos - 1), P_uptime)) =>
        LET text == AfterColonSpace(Stripped(pos - 1))
        IN  /\ heap[status][K_uptime] = Text(RStrip(text, UptimeSet))
            /\ heap[status][K_uptime].s = SubSeq(text, 1, Len(heap[status][K_uptime].s))

----------------------------------------------------------------------------
(* C14, on inputs of status lines in any order *)

CountTerminators(lines) ==
    Cardinality({j \in 1..Len(lines) : IsTerminatorLine(lines[j])})

CountVersions(lines) ==
    Cardinality({j \in 1..Len(lines) : IsVersionLine(lines[j])})

\* C14: after every prefix of the lines, and in the returned output, there
\* are as many Status Records as `unbound` lines consumed; a block whose
\* terminator line never comes gives no record.
C14_StatusRecordPerTerminator ==
    /\ pc = "loop" =>
          /\ CountStatus(View(heap, raw_output)) = CountTerminators(SubSeq(Lines, 1, pos - 1))
          /\ Len(raw_output) = CountTerminators(SubSeq(Lines, 1, pos - 1))
    /\ pc = "done" =>
          /\ CountStatus(result) = CountTerminators(Lines)
          /\ Len(result) = CountTerminators(Lines)

\* two blocks were begun and only one was terminated: one record is returned
C14_Witness ==
    /\ pc = "done"
    /\ CountVersions(Lines) = 2
    /\ CountTerminators(Lines) = 1
    /\ IsVersionLine(Lines[Len(Lines) - 1])
    /\ ~IsTerminatorLine(Lines[Len(Lines)])
    /\ Len(result) = 1

----------------------------------------------------------------------------
(* C15 and C17, on inputs of status lines in any order *)

\* the line of the j-th terminator, and the version line that began its block
NthTerminator(j) ==
    CHOOSE i \in 1..Len(Lines) :
        IsTerminatorLine(Lines[i]) /\ CountTerminators(SubSeq(Lines, 1, i)) = j

BlockStart(i) ==
    CHOOSE v \in 1..(i - 1) :
        /\ IsVersionLine(Lines[v])
        /\ \A w \in (v + 1)..(i - 1) : ~IsVersionLine(Lines[w])

FieldPrefixes == {P_verbosity, P_threads, P_modules, P_uptime, P_options}

IsFieldLine(l) == \E p \in FieldPrefixes : StartsWith(Strip(l, Whitespace), p)

\* the key a field line sets: its prefix without the colon
FieldKeyOf(l) ==
    LET p == CHOOSE q \in FieldPrefixes : StartsWith(Strip(l, Whitespace), q)
    IN  SubSeq(p, 1, Len(p) - 1)

\* the keys set by the lines of a block, from its version line to its terminator
KeysOfBlock(i) ==
    {K_version, K_pid}
        \cup {FieldKeyOf(Lines[k]) : k \in {k \in (BlockStart(i) + 1)..(i - 1) : IsFieldLine(Lines[k])}}

\* C15: right after a `version:` line the accumulation in progress holds the
\* key version only; the Status Record a terminator line emits holds exactly
\* the fields set by the lines from its block's `version:` line to that
\* terminator, with that block's version: nothing is left over from an
\* earlier block.
C15_FreshFieldSetPerBlock ==
    /\ (pc = "loop" /\ pos > 1 /\ IsVersionLine(Lines[pos - 1])) =>
          heap[status] = [key \in {K_version} |-> Text(VersionOf(Lines[pos - 1]))]
    /\ (pc = "loop" /\ pos > 1 /\ IsTerminatorLine(Lines[pos - 1])) =>
          LET emitted == heap[raw_output[Len(raw_output)]]
          IN  /\ DOMAIN emitted = KeysOfBlock(pos - 1)
              /\ emitted[K_version] = Text(VersionOf(Lines[BlockStart(pos - 1)]))
              /\ emitted[K_pid] = Text(PidOf(Lines[pos - 1]))

\* a block without fields has been emitted after a block that had a field
C15_Witness ==
    /\ pc = "loop"
    /\ pos = 5
    /\ IsVersionLine(Lines[1])
    /\ IsFieldLine(Lines[2])
    /\ IsVersionLine(Lines[3])
    /\ IsTerminatorLine(Lines[4])
    /\ Lines[1] # Lines[3]
    /\ DOMAIN heap[raw_output[Len(raw_output)]] = {K_version, K_pid}

\* C17: once a Status Record is in the output no later line changes it: each
\* line leaves every record already appended as it was, also a status-field
\* line or a second terminator that comes without a `version:` line between.
C17_AppendedRecordFrozen ==
    [][(pc = "loop" /\ pos <= Len(Lines))
         => \A j \in 1..Len(raw_output) : heap'[raw_output[j]] = heap[raw_output[j]]]_vars

----------------------------------------------------------------------------
(* C16, on inputs with `ok` lines among status and aggregate lines *)

\* C16: a line that starts with `ok` leaves the status accumulation in
\* progress (the dict and its fields), the aggregate mapping and the
\* aggregate-mode flag as they were.
C16_OkLeavesAccumulations ==
    [][(pc = "loop" /\ pos <= Len(Lines) /\ IsOkLine(Lines[pos]))
         => /\ status' = status
            /\ itr' = itr
            /\ itrparse' = itrparse
            /\ \A a \in 1..Len(heap) : heap'[a] = heap[a]]_vars

\* an `ok` line has been passed inside a status block, after a statistics line
C16_Witness ==
    /\ pc = "loop"
    /\ pos = 4
    /\ IsVersionLine(Lines[1])
    /\ Lines[2] = L_thread_q
    /\ IsOkLine(Lines[3])
    /\ status # 0
    /\ heap[status] = [key \in {K_version} |-> Text(<<"1">>)]
    /\ itrparse
    /\ DOMAIN itr # {}

----------------------------------------------------------------------------
(* C18, on inputs of status lines in any order *)

\* a status-field or terminator line stands before any `version:` line
FieldBeforeVersion(j) ==
    /\ IsFieldLine(Lines[j]) \/ IsTerminatorLine(Lines[j])
    /\ \A i \in 1..(j - 1) : ~IsVersionLine(Lines[i])

\* C18: every Status Record of a returned output has the keys version and
\* pid; when a status-field or terminator line comes before any `version:`
\* line, the call fails at that line and no record is appended or returned.
C18_VersionAndPidInEveryRecord ==
    /\ pc = "done" =>
          \A j \in 1..Len(result) : {K_version, K_pid} \subseteq DOMAIN result[j]
    /\ (\E j \in 1..Len(Lines) : FieldBeforeVersion(j)) =>
          (pc # "done" /\ result = <<>> /\ raw_output = <<>>)
    /\ pc = "loop" => \A j \in 1..(pos - 1) : ~FieldBeforeVersion(j)

\* a terminator line without a version line before it has ended the call
C18_Witness ==
    /\ pc = "failed"
    /\ fault = "NameError"
    /\ IsTerminatorLine(Lines[pos])
    /\ FieldBeforeVersion(pos)
    /\ Len(Lines) > pos

----------------------------------------------------------------------------
(* C19, on the general input pool *)

\* line j is consumed by one of the zone, serial or statistics rules
IsAggregateLine(j) == FirstRule(Stripped(j)) \in 9..12

CountAggregate(recs) ==
    Cardinality({j \in 1..Len(recs) : KindOf(recs[j]) = "aggregate"})

\* C19: after any prefix of lines the aggregate-mode flag is true exactly when
\* the aggregate mapping has an entry, which is exactly when a zone, serial or
\* statistics line was consumed; an Aggregate Record is appended only then
\* (once), and it always has at least one entry.
C19_FlagIffAggregateNonEmpty ==
    /\ pc # "failed" => (itrparse <=> DOMAIN itr # {})
    /\ pc = "loop" => (itrparse <=> \E j \in 1..(pos - 1) : IsAggregateLine(j))
    /\ pc \in {"return", "done"} =>
          LET recs == IF pc = "done" THEN result ELSE View(heap, raw_output)
          IN  /\ CountAggregate(recs) =
                    IF \E j \in 1..Len(Lines) : IsAggregateLine(j) THEN 1 ELSE 0
              /\ \A j \in 1..Len(recs) : DOMAIN recs[j] # {}

\* an output that ends with an Aggregate Record after a line of another kind
C19_Witness ==
    /\ pc = "done"
    /\ itrparse
    /\ Len(result) >= 2
    /\ KindOf(result[Len(result)]) = "aggregate"
    /\ \E j \in 1..Len(Lines) : ~IsAggregateLine(j)

====
